---- MODULE Spec2Model ----
(***************************************************************************)
(* bevy_collider_gen: colliders generated from the traced edges of an      *)
(* image (src/src/collider/rapier2d.rs).                                   *)
(*                                                                         *)
(* Three specifications:                                                   *)
(*   SpecHeights  heights_from_points / heightfield_collider_from_points   *)
(*                run step by step on every bounded point sequence;        *)
(*   Spec         one call of a public collider function on an image, the  *)
(*                multi_* functions as one parallel task per region;       *)
(*   SpecApp      the example app (src/examples/avian2d_colliders.rs): its *)
(*                AppState, asset loading and systems, frame by frame.     *)
(*                                                                         *)
(* A point is a record [x, y] on an integer grid.  Values of different     *)
(* kinds are records told apart by their "shape" field.                    *)
(***************************************************************************)
EXTENDS Integers, Sequences, FiniteSets, TLC

VARIABLES
    overflow_checks, \* build profile: TRUE when integer overflow panics (debug)
    hpoints,         \* heights_from_points: the argument `points`
    hi,              \* heights_from_points: index of the next point of the for loop
    heights,         \* heights_from_points: the local Vec<Vec2> `heights`
    hf,              \* the Vec<Real> heights_from_points returns
    hcollider,       \* what heightfield_collider_from_points ends with
    hpc,             \* position in heightfield_collider_from_points
    image,           \* the image as the tracer sees it: its region loops, raw frame
    absent,          \* the point loops the convex library call answers None for
    call,            \* the public function called (NotRun before the call)
    slots,           \* multi_*: the collect's output slots, one per region
    finished,        \* multi_*: the region indices in the order their tasks finished
    result,          \* what the call returned
    pc,              \* position of the call
    args_png,        \* example app: TRUE when a png path is given on the command line
    app_state,       \* example app: State<AppState>
    next_state,      \* example app: NextState<AppState> ("Unchanged" when none is pending)
    image_handles,   \* example app: the keys of GameAsset.image_handles
    font_handle,     \* example app: GameAsset.font_handle
    load_state,      \* asset server: the load state of every handle it gave out
    phase,           \* example app: "startup", "transition" or "update"
    todo,            \* example app: the Update systems still to run this frame
    frame,           \* example app: the number of the frame
    ran,             \* example app: which system ran in which state, with what outcome
    spawn_runs,      \* example app: how often the OnExit(Loading) systems ran
    spawn_unloaded   \* example app: they ran with an image that was not loaded

vars == << overflow_checks, hpoints, hi, heights, hf, hcollider, hpc,
           image, absent, call, slots, finished, result, pc,
           args_png, app_state, next_state, image_handles, font_handle, load_state,
           phase, todo, frame, ran, spawn_runs, spawn_unloaded >>

evars == << args_png, app_state, next_state, image_handles, font_handle, load_state,
            phase, todo, frame, ran, spawn_runs, spawn_unloaded >>

hvars == << hpoints, hi, heights, hf, hcollider, hpc >>
avars == << image, absent, call, slots, finished, result, pc >>

(***************************************************************************)
(* Bounds of the model.                                                    *)
(***************************************************************************)
MaxX == 2
MaxY == 1
MaxLen == 3
MaxRegions == 2
MaxFrames == 3

\* f32::EPSILON (about 1.2e-7) in grid units: less than one unit, so 0.
EpsilonGrid == 0

Pt(px, py) == [x |-> px, y |-> py]

Abs(n) == IF n < 0 THEN -n ELSE n

SeqsUpTo(S, n) == UNION { [1..k -> S] : k \in 0..n }

Range(s) == { s[k] : k \in 1..Len(s) }

(***************************************************************************)
(* Values.                                                                 *)
(***************************************************************************)
NoneVal == [shape |-> "none"]
Panic == [shape |-> "panic"]
Pending == [shape |-> "pending"]
NotRun == [shape |-> "notrun"]

(***************************************************************************)
(* Vec::remove(i) and Vec::insert(i, e), 1-based.                          *)
(***************************************************************************)
RemoveAt(s, i) == SubSeq(s, 1, i - 1) \o SubSeq(s, i + 1, Len(s))

InsertAt(s, i, e) == SubSeq(s, 1, i - 1) \o << e >> \o SubSeq(s, i, Len(s))

(***************************************************************************)
(* heights.iter().enumerate().find(|(_, e)| (e.x - p.x).abs() <= EPSILON): *)
(* the first index whose x matches, 0 for None.                            *)
(***************************************************************************)
FindColumn(hs, p) ==
    LET hits == { i \in 1..Len(hs) : Abs(hs[i].x - p.x) <= EpsilonGrid }
    IN  IF hits = {} THEN 0
        ELSE CHOOSE i \in hits : \A j \in hits : i <= j

\* The loop body with the matched column moved to the back (remove, then push).
ScanPushBack(hs, p) ==
    LET i == FindColumn(hs, p)
    IN  IF i # 0
        THEN IF hs[i].y < p.y THEN Append(RemoveAt(hs, i), p) ELSE hs
        ELSE Append(hs, p)

\* The loop body without the column search (every point pushed).
ScanPushAll(hs, p) == Append(hs, p)

(***************************************************************************)
(* One iteration of the for loop of heights_from_points.                   *)
(***************************************************************************)
Scan(hs, p) ==
    LET i == FindColumn(hs, p)
    IN  IF i # 0
        THEN IF hs[i].y < p.y THEN InsertAt(RemoveAt(hs, i), i, p) ELSE hs
        ELSE Append(hs, p)

\* A collect that takes the mapped items in the order their tasks finished.
ParMapYByCompletion(items, order) == [k \in 1..Len(items) |-> items[order[k]].y]

(***************************************************************************)
(* heights.into_par_iter().map(|v| v.y).collect(): `order` is the order the*)
(* tasks finish in; the indexed collect writes item k's value to slot k.   *)
(***************************************************************************)
ParMapY(items, order) == [k \in 1..Len(items) |-> items[k].y]

RECURSIVE ScanAll(_, _)
ScanAll(hs, ps) ==
    IF ps = << >> THEN hs ELSE ScanAll(Scan(hs, Head(ps)), Tail(ps))

\* heights_from_points as a function of its argument and the map's schedule.
heights_from_points(ps, order) == ParMapY(ScanAll(<< >>, ps), order)

NumColumnsKept(ps) == Len(ScanAll(<< >>, ps))

\* x_scale computed as hf.len().
UsizeLen(n, checks) == [panic |-> FALSE, wrapped |-> FALSE, value |-> n]

(***************************************************************************)
(* hf.len() - 1 on usize.  0 - 1 overflows: a panic with overflow checks,  *)
(* 2^64 - 1 without.  The wrapped result is held as value -1 with wrapped  *)
(* set (the usize is value + 2^64).                                        *)
(***************************************************************************)
UsizeSubOne(n, checks) ==
    IF n >= 1 THEN [panic |-> FALSE, wrapped |-> FALSE, value |-> n - 1]
    ELSE IF checks THEN [panic |-> TRUE, wrapped |-> FALSE, value |-> 0]
    ELSE [panic |-> FALSE, wrapped |-> TRUE, value |-> -1]

(***************************************************************************)
(* heightfield_collider_from_points once hf is known.                      *)
(***************************************************************************)
HeightfieldOf(h, checks) ==
    LET x_scale == UsizeSubOne(Len(h), checks)
    IN  IF x_scale.panic THEN Panic
        ELSE [shape |-> "heightfield", heights |-> h,
              scale |-> << x_scale.value, 1 >>, scale_wrapped |-> x_scale.wrapped]

heightfield_collider_from_points(v, order, checks) ==
    HeightfieldOf(heights_from_points(v, order), checks)

(***************************************************************************)
(* SpecHeights: heightfield_collider_from_points, step by step.            *)
(***************************************************************************)
GridPoints == { Pt(px, py) : px \in 0..MaxX, py \in 0..MaxY }

\* The scenario of the specification: (0,3),(0,1),(1,2),(2,0).
Scenario == << Pt(0, 3), Pt(0, 1), Pt(1, 2), Pt(2, 0) >>

\* The example app is not running.
NoApp ==
    /\ args_png = FALSE
    /\ app_state = "Loading"
    /\ next_state = "Unchanged"
    /\ image_handles = {}
    /\ font_handle = "default"
    /\ load_state = [h \in {} |-> "Loading"]
    /\ phase = "off"
    /\ todo = {}
    /\ frame = 0
    /\ ran = {}
    /\ spawn_runs = 0
    /\ spawn_unloaded = FALSE

IdleCall ==
    /\ image = << >>
    /\ absent = {}
    /\ call = NotRun
    /\ slots = << >>
    /\ finished = << >>
    /\ result = NotRun
    /\ pc = "off"

InitHeights ==
    /\ overflow_checks \in BOOLEAN
    /\ hpoints \in SeqsUpTo(GridPoints, MaxLen) \cup { Scenario }
    /\ hi = 1
    /\ heights = << >>
    /\ hf = << >>
    /\ hcollider = NotRun
    /\ hpc = "scan"
    /\ IdleCall
    /\ NoApp

\* for &p in points { ... }
ScanStep ==
    /\ hpc = "scan"
    /\ hi <= Len(hpoints)
    /\ heights' = Scan(heights, hpoints[hi])
    /\ hi' = hi + 1
    /\ UNCHANGED << overflow_checks, hpoints, hf, hcollider, hpc, avars, evars >>

\* heights.into_par_iter().map(|v| v.y).collect::<Vec<Real>>()
MapStep ==
    /\ hpc = "scan"
    /\ hi > Len(hpoints)
    /\ \E order \in Permutations(1..Len(heights)) : hf' = ParMapY(heights, order)
    /\ hpc' = "scale"
    /\ UNCHANGED << overflow_checks, hpoints, hi, heights, hcollider, avars, evars >>

\* let x_scale = hf.len() - 1; Collider::heightfield(hf, Vec2::new(x_scale as f32, 1.0))
ScaleStep ==
    /\ hpc = "scale"
    /\ hcollider' = HeightfieldOf(hf, overflow_checks)
    /\ hpc' = IF hcollider' = Panic THEN "panic" ELSE "done"
    /\ UNCHANGED << overflow_checks, hpoints, hi, heights, hf, avars, evars >>

NextHeights == ScanStep \/ MapStep \/ ScaleStep

SpecHeights == InitHeights /\ [][NextHeights]_vars

(***************************************************************************)
(* The tracer (Edges) and the frames.  Edges is not part of the sources at *)
(* hand; it is modelled from the specification (4.2, 4.3).  An image is    *)
(* held as the region loops the tracer finds in it, in discovery order,    *)
(* raw frame.  Coordinates of loops count half pixels, so that the centre  *)
(* of a bounding box is a grid point.                                      *)
(***************************************************************************)
Px(px, py) == Pt(2 * px, 2 * py)

SquareLoop == << Px(0, 0), Px(1, 0), Px(1, 1), Px(0, 1) >>
PairLoop == << Px(2, 1), Px(2, 0) >>
EmptyLoop == << >>

LoopPool == { SquareLoop, PairLoop, EmptyLoop }

MinOf(S) == CHOOSE m \in S : \A n \in S : m <= n
MaxOf(S) == CHOOSE m \in S : \A n \in S : n <= m

RECURSIVE Flatten(_)
Flatten(ls) == IF ls = << >> THEN << >> ELSE Head(ls) \o Flatten(Tail(ls))

\* to_translated: subtract the centre of the loop's bounding box from every point.
TranslateLoop(v) ==
    IF v = << >> THEN << >>
    ELSE LET xs == { v[k].x : k \in 1..Len(v) }
             ys == { v[k].y : k \in 1..Len(v) }
             cx == (MinOf(xs) + MaxOf(xs)) \div 2
             cy == (MinOf(ys) + MaxOf(ys)) \div 2
         IN  [k \in 1..Len(v) |-> Pt(v[k].x - cx, v[k].y - cy)]

\* trace_single: every region's edge merged into one loop.
single_image_edge_raw(img) == Flatten(img)
single_image_edge_translated(img) == TranslateLoop(Flatten(img))

\* trace_multi: one loop per region.
multi_image_edges_raw(img) == img
multi_image_edge_translated(img) == [i \in 1..Len(img) |-> TranslateLoop(img[i])]

(***************************************************************************)
(* The collider constructors of the physics library.  convex_polyline and  *)
(* convex_hull return Option<Collider>: `ab` is the set of point loops the *)
(* library answers None for; which loops those are is the library's.       *)
(***************************************************************************)
Collider_polyline(v) == [shape |-> "polyline", vertices |-> v]

Collider_convex_polyline(v, ab) ==
    IF v \in ab THEN NoneVal ELSE [shape |-> "convex_polyline", points |-> v]

Collider_convex_hull(v, ab) ==
    IF v \in ab THEN NoneVal ELSE [shape |-> "convex_hull", points |-> v]

(***************************************************************************)
(* The public functions.  One is named by its three name parts:            *)
(* [arity]_[kind]_collider_[frame].                                        *)
(***************************************************************************)
Kinds == { "polyline", "convex_polyline", "convex_hull", "heightfield" }
ConvexKinds == { "convex_polyline", "convex_hull" }
Frames == { "raw", "translated" }

PublicFns == [arity : { "single", "multi" }, kind : Kinds, frame : Frames]

Fn(a, k, f) == [arity |-> a, kind |-> k, frame |-> f]

\* The edge loop each single_* function reads from the image.
SingleEdge(f, img) ==
    CASE f = Fn("single", "polyline", "translated") -> single_image_edge_translated(img)
      [] f = Fn("single", "polyline", "raw") -> single_image_edge_raw(img)
      [] f = Fn("single", "convex_polyline", "translated") -> single_image_edge_translated(img)
      [] f = Fn("single", "convex_polyline", "raw") -> single_image_edge_raw(img)
      [] f = Fn("single", "convex_hull", "translated") -> single_image_edge_translated(img)
      [] f = Fn("single", "convex_hull", "raw") -> single_image_edge_translated(img)
      [] f = Fn("single", "heightfield", "translated") -> single_image_edge_translated(img)
      [] f = Fn("single", "heightfield", "raw") -> single_image_edge_raw(img)

\* The region loops each multi_* function iterates over.
MultiEdges(f, img) ==
    CASE f = Fn("multi", "polyline", "translated") -> multi_image_edge_translated(img)
      [] f = Fn("multi", "polyline", "raw") -> multi_image_edges_raw(img)
      [] f = Fn("multi", "convex_polyline", "translated") -> multi_image_edge_translated(img)
      [] f = Fn("multi", "convex_polyline", "raw") -> multi_image_edges_raw(img)
      [] f = Fn("multi", "heightfield", "translated") -> multi_image_edge_translated(img)
      [] f = Fn("multi", "heightfield", "raw") -> multi_image_edges_raw(img)
      [] f = Fn("multi", "convex_hull", "translated") -> multi_image_edge_translated(img)
      [] f = Fn("multi", "convex_hull", "raw") -> multi_image_edges_raw(img)

\* The constructor each function applies to a loop (the closure of the map).
MapFn(kind, v, ab, order, checks) ==
    CASE kind = "polyline" -> Collider_polyline(v)
      [] kind = "convex_polyline" -> Collider_convex_polyline(v, ab)
      [] kind = "convex_hull" -> Collider_convex_hull(v, ab)
      [] kind = "heightfield" -> heightfield_collider_from_points(v, order, checks)

\* The schedules of the map inside heights_from_points, for the kinds that run it.
Schedules(kind, v) ==
    IF kind = "heightfield" THEN Permutations(1..NumColumnsKept(v)) ELSE { << >> }

\* Every loop of the image the library can be asked about, in either frame.
LibraryInputs(img) ==
    { single_image_edge_raw(img), single_image_edge_translated(img) }
        \cup Range(multi_image_edges_raw(img))
        \cup Range(multi_image_edge_translated(img))

\* A collect that appends each result as its task finishes.
PlaceFirstFree(sl, i, r) ==
    LET free == { k \in 1..Len(sl) : sl[k] = Pending }
    IN  [sl EXCEPT ![MinOf(free)] = r]

\* The indexed collect: the result of the task of region i goes to slot i.
Place(sl, i, r) == [sl EXCEPT ![i] = r]

\* A collect that keeps only the entries that are Some.
CollectSome(sl) == [shape |-> "vec", items |-> SelectSeq(sl, LAMBDA e : e # NoneVal)]

\* .collect() into the returned Vec.
CollectVec(sl) == [shape |-> "vec", items |-> sl]

(***************************************************************************)
(* Spec: one call of a public function on an image.                        *)
(***************************************************************************)
Init ==
    /\ overflow_checks \in BOOLEAN
    /\ image \in SeqsUpTo(LoopPool, MaxRegions)
    /\ absent = {}
    /\ call = NotRun
    /\ slots = << >>
    /\ finished = << >>
    /\ result = NotRun
    /\ pc = "idle"
    /\ hpoints = << >>
    /\ hi = 1
    /\ heights = << >>
    /\ hf = << >>
    /\ hcollider = NotRun
    /\ hpc = "off"
    /\ NoApp

LibraryVerdicts(f) ==
    IF f.kind \in ConvexKinds THEN SUBSET LibraryInputs(image) ELSE { {} }

\* single_*_collider_*(image)
CallSingle ==
    /\ pc = "idle"
    /\ \E f \in PublicFns :
        /\ f.arity = "single"
        /\ call' = f
        /\ \E ab \in LibraryVerdicts(f) :
            /\ absent' = ab
            /\ \E order \in Schedules(f.kind, SingleEdge(f, image)) :
                 result' = MapFn(f.kind, SingleEdge(f, image), ab, order, overflow_checks)
    /\ pc' = IF result' = Panic THEN "panicked" ELSE "returned"
    /\ UNCHANGED << overflow_checks, image, slots, finished, hvars, evars >>

\* multi_*_collider_*(image), up to into_par_iter(): one task per region
CallMulti ==
    /\ pc = "idle"
    /\ \E f \in PublicFns :
        /\ f.arity = "multi"
        /\ call' = f
        /\ \E ab \in LibraryVerdicts(f) : absent' = ab
    /\ slots' = [i \in 1..Len(image) |-> Pending]
    /\ pc' = "running"
    /\ UNCHANGED << overflow_checks, image, finished, result, hvars, evars >>

\* The task of region i runs the closure; a panic in it ends the call.
TaskFinish(i) ==
    /\ pc = "running"
    /\ slots[i] = Pending
    /\ \E order \in Schedules(call.kind, MultiEdges(call, image)[i]) :
         LET r == MapFn(call.kind, MultiEdges(call, image)[i], absent, order, overflow_checks)
         IN  \/ /\ r # Panic
                /\ slots' = Place(slots, i, r)
                /\ finished' = Append(finished, i)
                /\ UNCHANGED << result, pc >>
             \/ /\ r = Panic
                /\ result' = Panic
                /\ pc' = "panicked"
                /\ UNCHANGED << slots, finished >>
    /\ UNCHANGED << overflow_checks, image, absent, call, hvars, evars >>

\* Every task has finished: collect() returns the Vec.
Collect ==
    /\ pc = "running"
    /\ \A i \in 1..Len(slots) : slots[i] # Pending
    /\ result' = CollectVec(slots)
    /\ pc' = "returned"
    /\ UNCHANGED << overflow_checks, image, absent, call, slots, finished, hvars, evars >>

Next ==
    \/ CallSingle
    \/ CallMulti
    \/ \E i \in 1..Len(slots) : TaskFinish(i)
    \/ Collect

Spec == Init /\ [][Next]_vars

(***************************************************************************)
(* What the claims speak of.                                               *)
(***************************************************************************)
Columns(ps) == { ps[k].x : k \in 1..Len(ps) }

LowestY(ps, cx) == MinOf({ ps[k].y : k \in { j \in 1..Len(ps) : ps[j].x = cx } })

FirstIndex(ps, cx) ==
    CHOOSE i \in 1..Len(ps) : ps[i].x = cx /\ \A j \in 1..(i - 1) : ps[j].x # cx

\* xs lists the columns of ps, each once, in the order they first occur in ps.
IsEncounterOrder(xs, ps) ==
    /\ Range(xs) = Columns(ps)
    /\ \A j, k \in 1..Len(xs) : j < k => FirstIndex(ps, xs[j]) < FirstIndex(ps, xs[k])

Scanned == SubSeq(hpoints, 1, hi - 1)

KeptXs == [k \in 1..Len(heights) |-> heights[k].x]

\* The edge loops the name of function f promises: its frame part.
NamedSingleEdge(f, img) ==
    IF f.frame = "raw" THEN single_image_edge_raw(img)
    ELSE single_image_edge_translated(img)

NamedMultiEdges(f, img) ==
    IF f.frame = "raw" THEN multi_image_edges_raw(img)
    ELSE multi_image_edge_translated(img)

\* The collider function `kind` builds from loop v alone.
BuiltFrom(kind, v) ==
    { MapFn(kind, v, absent, order, overflow_checks) : order \in Schedules(kind, v) }

(***************************************************************************)
(* C1: every function named *_raw builds its collider from the raw-frame   *)
(* edge points of the image and every function named *_translated from the *)
(* translated-frame points; single_convex_hull_collider_raw among them.    *)
(* Fails: single_convex_hull_collider_raw reads the translated edge.       *)
(***************************************************************************)
C1_FrameOfName ==
    pc = "returned" =>
        IF call.arity = "single"
        THEN result \in BuiltFrom(call.kind, NamedSingleEdge(call, image))
        ELSE /\ Len(result.items) = Len(image)
             /\ \A i \in 1..Len(image) :
                    result.items[i] \in BuiltFrom(call.kind, NamedMultiEdges(call, image)[i])

(***************************************************************************)
(* C2: heights_from_points emits, for each distinct x column, the minimal  *)
(* y among all input points with that x.                                   *)
(* Fails: the loop replaces the kept point when the kept y is smaller, so  *)
(* the maximal y is what stays.                                            *)
(***************************************************************************)
C2_MinimalYPerColumn ==
    hpc # "scan" =>
        /\ Len(hf) = Len(heights)
        /\ \A k \in 1..Len(hf) : hf[k] = LowestY(hpoints, heights[k].x)

(***************************************************************************)
(* C3: for every multi_* function and every order in which the per-region  *)
(* tasks finish, the returned vector holds at index i the result computed  *)
(* from the i-th region loop of the tracer.                                *)
(***************************************************************************)
C3_RegionOrderKept ==
    (call # NotRun /\ call.arity = "multi") =>
        /\ \A i \in 1..Len(slots) :
               slots[i] # Pending => slots[i] \in BuiltFrom(call.kind, MultiEdges(call, image)[i])
        /\ pc = "returned" =>
               /\ Len(result.items) = Len(image)
               /\ \A i \in 1..Len(image) :
                      result.items[i] \in BuiltFrom(call.kind, MultiEdges(call, image)[i])

\* Two regions with different colliders, the second finished first.
C3_Witness ==
    /\ pc = "returned"
    /\ call.arity = "multi"
    /\ Len(finished) >= 2
    /\ finished[1] > finished[2]
    /\ result.items[1] # result.items[2]

(***************************************************************************)
(* C4: a multi-region convex_polyline or convex_hull run is never aborted  *)
(* and returns exactly one entry per traced region; a region the library   *)
(* finds impossible is None in its own slot, and every entry is what the   *)
(* same function returns for an image holding that region alone.           *)
(***************************************************************************)
C4_AbsenceIsLocal ==
    (call # NotRun /\ call.arity = "multi" /\ call.kind \in ConvexKinds) =>
        /\ pc # "panicked"
        /\ pc = "returned" =>
               /\ Len(result.items) = Len(image)
               /\ \A i \in 1..Len(image) :
                      LET alone == MultiEdges(call, << image[i] >>)[1]
                      IN  /\ result.items[i] = MapFn(call.kind, alone, absent, << >>, overflow_checks)
                          /\ (result.items[i] = NoneVal) <=> (alone \in absent)

\* A run in which one region is absent and a sibling region has its collider.
C4_Witness ==
    /\ pc = "returned"
    /\ call.arity = "multi"
    /\ call.kind \in ConvexKinds
    /\ \E i, j \in 1..Len(image) :
           /\ result.items[i] = NoneVal
           /\ result.items[j] # NoneVal

(***************************************************************************)
(* C6: heightfield_collider_from_points on an empty point sequence         *)
(* completes, and the computation of x_scale neither underflows nor panics.*)
(* Fails: hf.len() - 1 is 0 - 1 on usize.                                  *)
(***************************************************************************)
C6_EmptyLoopNoUnderflow ==
    hpoints = << >> =>
        /\ hpc # "panic"
        /\ hpc = "done" => ~hcollider.scale_wrapped

(***************************************************************************)
(* C8: the heights come in the order their x columns are first met in the  *)
(* input, not sorted by x; a point that replaces a column's kept point     *)
(* takes that column's position, and the final map keeps the order.        *)
(***************************************************************************)
C8_EncounterOrder ==
    /\ IsEncounterOrder(KeptXs, Scanned)
    /\ hpc \in { "scale", "done" } =>
           /\ Len(hf) = Len(heights)
           /\ \A k \in 1..Len(hf) : hf[k] = heights[k].y

\* A column met first is replaced later, and the columns end up not sorted by x.
C8_Witness ==
    /\ hpc = "done"
    /\ Len(hf) >= 2
    /\ \E j, k \in 1..Len(heights) : j < k /\ heights[j].x > heights[k].x
    /\ \E k \in 1..(Len(heights) - 1) :
           heights[k] # hpoints[FirstIndex(hpoints, heights[k].x)]

(***************************************************************************)
(* C9: the length of the height array equals the number of distinct x      *)
(* values of the input.                                                    *)
(***************************************************************************)
C9_OneHeightPerColumn ==
    /\ Len(heights) = Cardinality(Columns(Scanned))
    /\ hpc \in { "scale", "done", "panic" } => Len(hf) = Cardinality(Columns(hpoints))

\* An input in which columns repeat.
C9_Witness ==
    /\ hpc = "done"
    /\ Len(hf) >= 2
    /\ Len(hpoints) > Len(hf)

(***************************************************************************)
(* C10: for a point sequence with at least one column the heightfield is   *)
(* built with x_scale = (number of distinct x columns) - 1 and vertical    *)
(* scale 1: 3 columns give 2, a single column gives 0.                     *)
(***************************************************************************)
C10_XScale ==
    hpoints # << >> =>
        /\ hpc # "panic"
        /\ hpc = "done" =>
               /\ hcollider.scale = << Cardinality(Columns(hpoints)) - 1, 1 >>
               /\ ~hcollider.scale_wrapped

\* The scenario's three columns give scale (2, 1).
C10_Witness ==
    /\ hpc = "done"
    /\ hpoints = Scenario
    /\ hcollider.scale = << 2, 1 >>

(***************************************************************************)
(* SpecApp: the example app.  A frame runs the state transition schedule   *)
(* (a pending NextState is applied: OnExit of the old state, then the      *)
(* state changes) and then the Update systems, in any order, each under    *)
(* its run condition.  Assets load in the background.                      *)
(***************************************************************************)
\* load_assets: the image handles requested, by key.
RequestedImages(png) ==
    IF png THEN { "custom_png" } ELSE { "car_handle", "terrain_handle", "boulders" }

FontAsset == "font"

UpdateSystems == { "check_assets", "camera_movement", "car_movement" }

\* asset_server.get_load_state(h): None for a handle the server never gave out.
GetLoadState(ls, h) == IF h \in DOMAIN ls THEN ls[h] ELSE "None"

\* check_assets passes as soon as one image is loaded (the font is not looked at).
AnyImageLoaded(ls, imgs, font) == \E h \in imgs : GetLoadState(ls, h) = "Loaded"

\* check_assets reaches state.set(): no early return.
CheckPasses(ls, imgs, font) ==
    /\ \A h \in imgs : GetLoadState(ls, h) = "Loaded"
    /\ GetLoadState(ls, font) = "Loaded"

\* The run conditions of the Update systems.
RunIf(sys, st) ==
    CASE sys = "check_assets" -> st = "Loading"
      [] sys = "camera_movement" -> st = "Running"
      [] sys = "car_movement" -> st = "Running"

InitApp ==
    /\ args_png \in BOOLEAN
    /\ app_state = "Loading"
    /\ next_state = "Unchanged"
    /\ image_handles = {}
    /\ font_handle = "default"
    /\ load_state = [h \in {} |-> "Loading"]
    /\ phase = "startup"
    /\ todo = {}
    /\ frame = 0
    /\ ran = {}
    /\ spawn_runs = 0
    /\ spawn_unloaded = FALSE
    /\ overflow_checks = FALSE
    /\ hpoints = << >>
    /\ hi = 1
    /\ heights = << >>
    /\ hf = << >>
    /\ hcollider = NotRun
    /\ hpc = "off"
    /\ IdleCall

\* OnEnter(AppState::Loading): load_assets, before the first Update
LoadAssets ==
    /\ phase = "startup"
    /\ font_handle' = FontAsset
    /\ image_handles' = RequestedImages(args_png)
    /\ load_state' = [h \in RequestedImages(args_png) \cup { FontAsset } |-> "Loading"]
    /\ phase' = "update"
    /\ todo' = UpdateSystems
    /\ frame' = 1
    /\ UNCHANGED << args_png, app_state, next_state, ran, spawn_runs, spawn_unloaded,
                    overflow_checks, hvars, avars >>

\* The asset server finishes loading a handle, or fails to.
AssetProgress(h) ==
    /\ phase # "startup"
    /\ load_state[h] = "Loading"
    /\ \E s \in { "Loaded", "Failed" } : load_state' = [load_state EXCEPT ![h] = s]
    /\ UNCHANGED << args_png, app_state, next_state, image_handles, font_handle, phase,
                    todo, frame, ran, spawn_runs, spawn_unloaded,
                    overflow_checks, hvars, avars >>

\* check_assets.run_if(in_state(AppState::Loading))
check_assets ==
    /\ phase = "update"
    /\ "check_assets" \in todo
    /\ todo' = todo \ { "check_assets" }
    /\ IF RunIf("check_assets", app_state)
       THEN IF CheckPasses(load_state, image_handles, font_handle)
            THEN /\ next_state' = "Running"
                 /\ ran' = ran \cup { << "check_assets", app_state, "set" >> }
            ELSE /\ ran' = ran \cup { << "check_assets", app_state, "return" >> }
                 /\ UNCHANGED next_state
       ELSE UNCHANGED << next_state, ran >>
    /\ UNCHANGED << args_png, app_state, image_handles, font_handle, load_state, phase,
                    frame, spawn_runs, spawn_unloaded, overflow_checks, hvars, avars >>

\* camera_movement / car_movement, each .run_if(in_state(AppState::Running))
Movement(sys) ==
    /\ phase = "update"
    /\ sys \in todo
    /\ todo' = todo \ { sys }
    /\ ran' = IF RunIf(sys, app_state) THEN ran \cup { << sys, app_state, "moved" >> } ELSE ran
    /\ UNCHANGED << args_png, app_state, next_state, image_handles, font_handle,
                    load_state, phase, frame, spawn_runs, spawn_unloaded,
                    overflow_checks, hvars, avars >>

\* Every Update system has had its turn: the frame ends.
EndFrame ==
    /\ phase = "update"
    /\ todo = {}
    /\ frame < MaxFrames
    /\ phase' = "transition"
    /\ frame' = frame + 1
    /\ UNCHANGED << args_png, app_state, next_state, image_handles, font_handle,
                    load_state, todo, ran, spawn_runs, spawn_unloaded,
                    overflow_checks, hvars, avars >>

\* The state transition schedule: a pending state is applied, and leaving
\* Loading runs the OnExit(AppState::Loading) systems (the spawners).
StateTransition ==
    /\ phase = "transition"
    /\ IF next_state # "Unchanged" /\ next_state # app_state
       THEN /\ app_state' = next_state
            /\ IF app_state = "Loading"
               THEN /\ spawn_runs' = spawn_runs + 1
                    /\ spawn_unloaded' =
                           (spawn_unloaded
                                \/ \E h \in image_handles : GetLoadState(load_state, h) # "Loaded")
               ELSE UNCHANGED << spawn_runs, spawn_unloaded >>
       ELSE UNCHANGED << app_state, spawn_runs, spawn_unloaded >>
    /\ next_state' = "Unchanged"
    /\ phase' = "update"
    /\ todo' = UpdateSystems
    /\ UNCHANGED << args_png, image_handles, font_handle, load_state, frame, ran,
                    overflow_checks, hvars, avars >>

NextApp ==
    \/ LoadAssets
    \/ \E h \in DOMAIN load_state : AssetProgress(h)
    \/ check_assets
    \/ \E sys \in { "camera_movement", "car_movement" } : Movement(sys)
    \/ EndFrame
    \/ StateTransition

SpecApp == InitApp /\ [][NextApp]_vars

AllLoaded ==
    /\ image_handles # {}
    /\ \A h \in image_handles \cup { font_handle } : GetLoadState(load_state, h) = "Loaded"

(***************************************************************************)
(* C11: the app starts in Loading; check_assets requests Running only when *)
(* every image handle and the font handle are Loaded; while any handle is  *)
(* not Loaded the state stays Loading; the spawning systems (on exit from  *)
(* Loading) never run before all images are loaded and run at most once;   *)
(* camera_movement and car_movement run only in Running.                   *)
(***************************************************************************)
C11_LoadingGate ==
    /\ phase = "startup" => app_state = "Loading"
    /\ next_state = "Running" => AllLoaded
    /\ ~AllLoaded => app_state = "Loading"
    /\ spawn_runs <= 1
    /\ ~spawn_unloaded
    /\ spawn_runs = 0 <=> app_state = "Loading"
    /\ \A r \in ran :
           /\ r[1] = "check_assets" => r[2] = "Loading"
           /\ r[1] \in { "camera_movement", "car_movement" } => r[2] = "Running"

\* check_assets returned early in one frame and passed in a later one; the
\* spawners then ran and both movement systems ran in Running.
C11_Witness ==
    /\ app_state = "Running"
    /\ spawn_runs = 1
    /\ << "check_assets", "Loading", "return" >> \in ran
    /\ << "check_assets", "Loading", "set" >> \in ran
    /\ << "camera_movement", "Running", "moved" >> \in ran
    /\ << "car_movement", "Running", "moved" >> \in ran

====
